---- MODULE Spec2Model ----
(***************************************************************************)
(* Entertainment briefing: the dedup ledger (src/src/database.py) and the  *)
(* categorize -> dedup -> sort/limit pipeline (src/src/filters.py).        *)
(*                                                                         *)
(* Strings are TLA+ strings, read character by character with SubSeq, so   *)
(* str.strip, str.lower, the substring test of the keyword match and the   *)
(* byte-wise TEXT comparison of SQLite are computed, not assumed.          *)
(***************************************************************************)
EXTENDS Integers, Sequences, FiniteSets, TLC

VARIABLES
    clock,                \* wall clock (UTC): [day, hour]
    advances,             \* number of clock advances so far (bounded)
    sent_stories,         \* table sent_stories: set of rows, url_hash UNIQUE
    ret,                  \* the last call: [op, arg, value, again]
    general_stories,      \* the five source groups handed to the pipeline
    actor_stories,
    music_stories,
    classic_rock_stories,
    edmonton_events,
    categorized,          \* result of categorize_stories (or dedup's input)
    deduped,              \* result of dedup_stories
    limited,              \* result of sort_and_limit
    pc,                   \* position in the pipeline, or in cmd_send
    env,                  \* environment and arguments of a main.py command
    runs,                 \* table runs, in insertion order
    fetched,              \* feed groups _collect_stories has fetched
    outbox,               \* calls of send_email and what they returned
    errors                \* _collect_stories: names of the groups found empty

ledger_vars == <<clock, advances, sent_stories, ret>>
input_vars  == <<general_stories, actor_stories, music_stories,
                 classic_rock_stories, edmonton_events>>
pipe_vars   == <<categorized, deduped, limited, pc>>
send_vars   == <<env, runs, fetched, outbox, errors>>
vars        == <<clock, advances, sent_stories, ret, general_stories,
                 actor_stories, music_stories, classic_rock_stories,
                 edmonton_events, categorized, deduped, limited, pc,
                 env, runs, fetched, outbox, errors>>

(***************************************************************************)
(* Bounds of the model.                                                    *)
(***************************************************************************)
MaxAdvances == 1      \* clock advances in one behaviour
MaxBatch    == 2      \* stories in one mark_stories_sent call
MaxStories  == 3      \* stories over the five groups of one pipeline run
MaxRanked   == 11     \* stories of one category given to sort_and_limit
MaxOdd      == 2      \* of them, stories published at another instant
MaxFetched  == 10     \* stories one fetch of a feed group returns at most
MaxEntries  == 2      \* entries of one feed, events of one API response

(***************************************************************************)
(* Program constants (src/config.py).                                      *)
(***************************************************************************)
STORIES_PER_CATEGORY == 10
DEDUP_RETENTION_DAYS == 30
MIN_TOTAL_STORIES    == 10

CATEGORIES == <<"General Entertainment", "Actors & Celebrity",
                "Musicians & Music", "Edmonton Events", "Classic Rock">>

ACTOR_KEYWORDS ==
    <<"actor", "actress", "casting", "cast", "star", "starring", "celebrity",
      "red carpet", "premiere", "oscar", "emmy", "golden globe", "sag award",
      "box office", "film role", "tv role", "series regular", "cameo",
      "interview", "profile", "tribute", "memoir">>

CLASSIC_ROCK_KEYWORDS ==
    <<"led zeppelin", "rolling stones", "pink floyd", "the beatles", "the who",
      "ac/dc", "aerosmith", "black sabbath", "deep purple", "fleetwood mac",
      "eagles", "queen", "jimi hendrix", "eric clapton", "bob dylan",
      "bruce springsteen", "david bowie", "tom petty", "van halen",
      "def leppard", "rush", "kiss", "lynyrd skynyrd", "zz top", "journey",
      "foreigner", "bon jovi", "guns n' roses", "metallica", "iron maiden",
      "judas priest", "motley crue", "ozzy osbourne", "stevie nicks",
      "roger waters", "robert plant", "jimmy page", "mick jagger",
      "keith richards", "pete townshend", "roger daltrey", "classic rock",
      "rock legend", "hall of fame", "reunion tour", "farewell tour",
      "rock icon">>

(***************************************************************************)
(* Strings.                                                                *)
(***************************************************************************)
Range(f) == {f[i] : i \in DOMAIN f}

CharAt(s, i) == SubSeq(s, i, i)

\* Code points of the characters the compared strings are made of.
Ord(c) ==
    CASE c = " " -> 32 [] c = "+" -> 43 [] c = "-" -> 45 [] c = "." -> 46
      [] c = "0" -> 48 [] c = "1" -> 49 [] c = "2" -> 50 [] c = "3" -> 51
      [] c = "4" -> 52 [] c = "5" -> 53 [] c = "6" -> 54 [] c = "7" -> 55
      [] c = "8" -> 56 [] c = "9" -> 57 [] c = ":" -> 58 [] c = "T" -> 84

\* a < b, compared character by character (Python str, SQLite BINARY).
StrLess(a, b) ==
    /\ a # b
    /\ \E i \in 1..(Len(b)) :
          /\ i <= Len(a) + 1
          /\ SubSeq(a, 1, i - 1) = SubSeq(b, 1, i - 1)
          /\ \/ i = Len(a) + 1
             \/ Ord(CharAt(a, i)) < Ord(CharAt(b, i))

Whitespace == {" ", "\t", "\n"}

RECURSIVE lstrip(_)
lstrip(s) ==
    IF Len(s) > 0 /\ CharAt(s, 1) \in Whitespace
    THEN lstrip(SubSeq(s, 2, Len(s)))
    ELSE s

RECURSIVE rstrip(_)
rstrip(s) ==
    IF Len(s) > 0 /\ CharAt(s, Len(s)) \in Whitespace
    THEN rstrip(SubSeq(s, 1, Len(s) - 1))
    ELSE s

\* str.strip()
strip(s) == rstrip(lstrip(s))

Digit(n) == CharAt("0123456789", n + 1)

\* n as a zero-padded decimal of width 2 / width 3
Pad2(n) == Digit(n \div 10) \o Digit(n % 10)
Pad3(n) == Digit(n \div 100) \o Pad2(n % 100)

LowerChar(c) ==
    CASE c = "A" -> "a" [] c = "B" -> "b" [] c = "C" -> "c" [] c = "D" -> "d"
      [] c = "E" -> "e" [] c = "F" -> "f" [] c = "G" -> "g" [] c = "H" -> "h"
      [] c = "I" -> "i" [] c = "J" -> "j" [] c = "K" -> "k" [] c = "L" -> "l"
      [] c = "M" -> "m" [] c = "N" -> "n" [] c = "O" -> "o" [] c = "P" -> "p"
      [] c = "Q" -> "q" [] c = "R" -> "r" [] c = "S" -> "s" [] c = "T" -> "t"
      [] c = "U" -> "u" [] c = "V" -> "v" [] c = "W" -> "w" [] c = "X" -> "x"
      [] c = "Y" -> "y" [] c = "Z" -> "z" [] OTHER -> c

\* str.lower()
RECURSIVE lower(_)
lower(s) ==
    IF Len(s) = 0 THEN ""
    ELSE LowerChar(CharAt(s, 1)) \o lower(SubSeq(s, 2, Len(s)))

\* kw in text
Contains(text, kw) ==
    \E i \in 1..(Len(text) - Len(kw) + 1) : SubSeq(text, i, i + Len(kw) - 1) = kw

(***************************************************************************)
(* Stories.  A story is the dict of fetch_feed: title, url, published,     *)
(* summary, plus the category categorize_stories writes into it ("" while  *)
(* the key is absent, which is what story.get("category", "") reads).      *)
(***************************************************************************)
Story(url, title, summary, published) ==
    [url |-> url, title |-> title, summary |-> summary,
     published |-> published, category |-> ""]

WithCategory(story, cat) == [story EXCEPT !.category = cat]

UrlA  == "https://a.com/x"
UrlAw == "  https://a.com/x "       \* the same URL with surrounding blanks
UrlB  == "https://variety.com/1"
Urls  == {UrlA, UrlAw, UrlB}

(***************************************************************************)
(* The dedup ledger (src/src/database.py).                                 *)
(***************************************************************************)
\* hashlib.sha256(...).hexdigest(): collision-free on the model's URLs, and
\* never equal to the URL it digests.
sha256(s) == <<"sha256", s>>

\* The digest of the URL as given, blanks and all.
url_hash_nostrip(url) == sha256(url)

url_hash(url) == sha256(strip(url))

\* The date of a day, a fixed-width zero-padded field ordered like the day
\* (YYYY-MM-DD in the program, the day's ordinal here).
DateStr(day) == Pad3(day)

\* SQLite datetime('now'): "YYYY-MM-DD HH:MM:SS", UTC.
SqliteNow(c) == DateStr(c.day) \o " " \o Pad2(c.hour) \o ":00:00"

\* datetime.isoformat() of an aware UTC datetime: "YYYY-MM-DDTHH:MM:SS+00:00".
IsoFormat(c) == DateStr(c.day) \o "T" \o Pad2(c.hour) \o ":00:00+00:00"

\* A lookup by the url column instead of the hash.
is_story_sent_by_url(rows, url) == \E r \in rows : r.url = url

\* SELECT 1 FROM sent_stories WHERE url_hash = ?
is_story_sent(rows, url) == \E r \in rows : r.url_hash = url_hash(url)

\* SELECT url_hash FROM sent_stories
get_sent_hashes(rows) == {r.url_hash : r \in rows}

NewRow(story, now) ==
    [url_hash |-> url_hash(story.url), url |-> story.url,
     title |-> story.title, category |-> story.category,
     sent_at |-> SqliteNow(now)]

\* A buggy INSERT OR REPLACE: the colliding row is overwritten and counted.
InsertReplace(acc, story, now) ==
    [rows  |-> {r \in acc.rows : r.url_hash # url_hash(story.url)}
                 \cup {NewRow(story, now)},
     count |-> acc.count + 1]

\* An INSERT whose swallowed IntegrityError is counted all the same.
InsertCountAttempts(acc, story, now) ==
    IF \E r \in acc.rows : r.url_hash = url_hash(story.url)
    THEN [acc EXCEPT !.count = @ + 1]
    ELSE [rows  |-> acc.rows \cup {NewRow(story, now)},
          count |-> acc.count + 1]

\* One INSERT of mark_stories_sent: the UNIQUE constraint on url_hash raises
\* IntegrityError, which is swallowed and not counted.
InsertSentStory(acc, story, now) ==
    IF \E r \in acc.rows : r.url_hash = url_hash(story.url)
    THEN acc
    ELSE [rows  |-> acc.rows \cup {NewRow(story, now)},
          count |-> acc.count + 1]

RECURSIVE InsertAll(_, _, _, _)
InsertAll(acc, stories, i, now) ==
    IF i > Len(stories) THEN acc
    ELSE InsertAll(InsertSentStory(acc, stories[i], now), stories, i + 1, now)

\* mark_stories_sent(stories): [rows after the commit, count returned]
mark_stories_sent(rows, stories, now) ==
    IF stories = <<>>
    THEN [rows |-> rows, count |-> 0]
    ELSE InsertAll([rows |-> rows, count |-> 0], stories, 1, now)

\* cutoff of cleanup_old_stories: (now - retention days).isoformat()
Cutoff(now) ==
    IsoFormat([day |-> now.day - DEDUP_RETENTION_DAYS, hour |-> now.hour])

\* DELETE FROM sent_stories WHERE sent_at < ?  (TEXT against TEXT)
Expired(rows, now) == {r \in rows : StrLess(r.sent_at, Cutoff(now))}

(***************************************************************************)
(* Inputs of the ledger operations.                                        *)
(***************************************************************************)
StoryX  == [Story(UrlA, "T", "", "") EXCEPT !.category = "C"]
StoryXw == [Story(UrlAw, "T again", "", "") EXCEPT !.category = "C"]
StoryY  == [Story(UrlB, "Story 2", "", "") EXCEPT !.category = "Music"]
LedgerStories == {StoryX, StoryXw, StoryY}

SeqsUpTo(S, n) == UNION {[1..k -> S] : k \in 0..n}

MarkBatches == SeqsUpTo(LedgerStories, MaxBatch)

Hours    == {0, 12}
DaySteps == {0, 1, DEDUP_RETENTION_DAYS}

Empty == [c \in Range(CATEGORIES) |-> <<>>]

(***************************************************************************)
(* The ledger as a state machine: one action per database.py call.         *)
(***************************************************************************)
\* The record of a call; again: the call before it was the same call.
Call(op, arg, value) ==
    [op |-> op, arg |-> arg, value |-> value,
     again |-> (ret.op = op /\ ret.arg = arg)]

\* No main.py command is running: nothing in the environment, table runs
\* empty, nothing fetched, nothing handed to SMTP.
NoCommand ==
    /\ env = [NOTIFICATION_EMAIL |-> "", dry_run |-> FALSE,
              smtp |-> "no credentials"]
    /\ runs = <<>>
    /\ fetched = <<>>
    /\ outbox = <<>>
    /\ errors = <<>>

\* init_db on a fresh file: both tables empty.
InitLedger ==
    /\ clock = [day |-> DEDUP_RETENTION_DAYS, hour |-> 0]
    /\ advances = 0
    /\ sent_stories = {}
    /\ ret = [op |-> "init_db", arg |-> <<>>, value |-> 0, again |-> FALSE]
    /\ general_stories = <<>> /\ actor_stories = <<>> /\ music_stories = <<>>
    /\ classic_rock_stories = <<>> /\ edmonton_events = <<>>
    /\ categorized = Empty /\ deduped = Empty /\ limited = Empty
    /\ pc = "idle"
    /\ NoCommand

MarkStoriesSent ==
    \E stories \in MarkBatches :
        LET r == mark_stories_sent(sent_stories, stories, clock) IN
        /\ sent_stories' = r.rows
        /\ ret' = Call("mark_stories_sent", stories, r.count)
        /\ UNCHANGED <<clock, advances, input_vars, send_vars, pipe_vars>>

IsStorySent ==
    \E url \in Urls :
        /\ ret' = Call("is_story_sent", url, is_story_sent(sent_stories, url))
        /\ UNCHANGED <<clock, advances, sent_stories, input_vars, send_vars, pipe_vars>>

GetSentHashes ==
    /\ ret' = Call("get_sent_hashes", <<>>, get_sent_hashes(sent_stories))
    /\ UNCHANGED <<clock, advances, sent_stories, input_vars, send_vars, pipe_vars>>

CleanupOldStories ==
    LET gone == Expired(sent_stories, clock) IN
    /\ sent_stories' = sent_stories \ gone
    /\ ret' = Call("cleanup_old_stories", <<>>, Cardinality(gone))
    /\ UNCHANGED <<clock, advances, input_vars, send_vars, pipe_vars>>

\* Time passes between calls.
AdvanceClock ==
    /\ advances < MaxAdvances
    /\ \E d \in DaySteps, h \in Hours :
        /\ d > 0 \/ h > clock.hour
        /\ clock' = [day |-> clock.day + d, hour |-> h]
    /\ advances' = advances + 1
    /\ ret' = Call("clock", <<>>, 0)
    /\ UNCHANGED <<sent_stories, input_vars, send_vars, pipe_vars>>

NextLedger ==
    \/ MarkStoriesSent
    \/ IsStorySent
    \/ GetSentHashes
    \/ CleanupOldStories
    \/ AdvanceClock

SpecLedger == InitLedger /\ [][NextLedger]_vars

(***************************************************************************)
(* Claims about the ledger, checked under SpecLedger.                      *)
(***************************************************************************)
IsMark(call) == call.op = "mark_stories_sent"

AllAlreadySent(rows, stories) ==
    \A i \in DOMAIN stories : url_hash(stories[i].url) \in get_sent_hashes(rows)

\* C8: a mark_stories_sent call whose stories' hashes are all in the ledger
\* already returns 0 and leaves every ledger row (url, title, category,
\* sent_at) as it was.
C8_RemarkIsNoOp ==
    [][ (IsMark(ret') /\ AllAlreadySent(sent_stories, ret'.arg))
            => (ret'.value = 0 /\ sent_stories' = sent_stories) ]_vars

\* A non-empty batch was re-marked (count 0) although its first story
\* carries another title than the row the ledger keeps for its hash.
C8_Witness ==
    /\ IsMark(ret) /\ Len(ret.arg) > 0 /\ ret.value = 0
    /\ \E r \in sent_stories :
        /\ r.url_hash = url_hash(ret.arg[1].url)
        /\ r.title # ret.arg[1].title

FirstMarkOfX(n) ==
    (IsMark(ret') /\ ret'.arg = <<StoryX>> /\ ~is_story_sent(sent_stories, UrlA))
        => ret'.value = n

SecondMarkOfX ==
    (IsMark(ret') /\ ret'.arg = <<StoryX>> /\ ret'.again) => ret'.value = 0

\* C9 as stated: marking the one-story list [https://a.com/x] on a ledger
\* without it returns 2, and marking it again right after returns 0.
C9_MarkTwiceTwoThenZero == [][FirstMarkOfX(2) /\ SecondMarkOfX]_vars

\* C9 amended: the first call returns 1 (one story, one insert), the
\* second call returns 0.
C9_MarkTwiceOneThenZero == [][FirstMarkOfX(1) /\ SecondMarkOfX]_vars

\* The one-story list was marked twice in succession; the second call
\* returned 0 and the ledger holds the row of the first.
C9_Witness ==
    /\ ret = [op |-> "mark_stories_sent", arg |-> <<StoryX>>, value |-> 0,
              again |-> TRUE]
    /\ \E r \in sent_stories : r.url = UrlA /\ r.title = "T"

\* C10: is_story_sent(url) is true exactly when a ledger row's hash is the
\* hash of the trimmed url, which is when a row was stored for a URL that
\* trims to the same string; it answers alike for blank-padded variants of
\* a URL and agrees with membership in get_sent_hashes().
C10_IsSentIffHashInLedger ==
    /\ \A u \in Urls :
        /\ is_story_sent(sent_stories, u)
              = (\E r \in sent_stories : r.url_hash = sha256(strip(u)))
        /\ is_story_sent(sent_stories, u)
              = (\E r \in sent_stories : strip(r.url) = strip(u))
        /\ is_story_sent(sent_stories, u)
              = (url_hash(u) \in get_sent_hashes(sent_stories))
        /\ \A v \in Urls :
              strip(v) = strip(u) =>
                 is_story_sent(sent_stories, v) = is_story_sent(sent_stories, u)
    /\ ret.op = "is_story_sent" =>
          ret.value = (\E r \in sent_stories : strip(r.url) = strip(ret.arg))
    /\ ret.op = "get_sent_hashes" =>
          \A u \in Urls : is_story_sent(sent_stories, u) = (url_hash(u) \in ret.value)

\* is_story_sent answered TRUE for the blank-padded URL against a row that
\* was stored under the bare URL, while another URL's row has been purged.
C10_Witness ==
    /\ ret.op = "is_story_sent" /\ ret.arg = UrlAw /\ ret.value = TRUE
    /\ \E r \in sent_stories : r.url = UrlA
    /\ ~is_story_sent(sent_stories, UrlB)
    /\ advances > 0

(***************************************************************************)
(* The pipeline (src/src/filters.py).                                      *)
(***************************************************************************)
\* The stories the pipeline is run on: title and summary of each content.
CastingNews == <<"Star lands casting role", "">>
ZeppelinNews == <<"LED Zeppelin remaster", "">>
PopNews == <<"New pop album", "out now">>
Contents == {CastingNews, ZeppelinNews, PopNews}

Published == "2026-02-18T10:00:00"

StoryOf(url, c) == Story(url, c[1], c[2], Published)

\* Two URLs under every kind of content they need to meet under, and the
\* blank-padded variant of the first.
Stories ==
    { StoryOf(UrlA, CastingNews), StoryOf(UrlA, PopNews),
      StoryOf(UrlAw, ZeppelinNews),
      StoryOf(UrlB, CastingNews), StoryOf(UrlB, ZeppelinNews),
      StoryOf(UrlB, PopNews) }

\* text of _matches_keywords: f"{title} {summary}".lower()
MatchText(title, summary) == lower(title \o " " \o summary)

\* any(kw.lower() in text for kw in keywords)
AnyKeywordIn(text, keywords) ==
    \E k \in DOMAIN keywords : Contains(text, lower(keywords[k]))

\* The keyword match of every content, computed once per keyword list.
MatchTable ==
    [keywords \in {ACTOR_KEYWORDS, CLASSIC_ROCK_KEYWORDS} |->
        {c \in Contents : AnyKeywordIn(MatchText(c[1], c[2]), keywords)}]

_matches_keywords(story, keywords) ==
    IF /\ <<story.title, story.summary>> \in Contents
       /\ keywords \in DOMAIN MatchTable
    THEN <<story.title, story.summary>> \in MatchTable[keywords]
    ELSE AnyKeywordIn(MatchText(story.title, story.summary), keywords)

\* story["category"] = cat; categorized[cat].append(story);
\* assigned_urls.add(story["url"])
Place(acc, story, cat) ==
    [categorized   |-> [acc.categorized EXCEPT
                           ![cat] = Append(@, WithCategory(story, cat))],
     assigned_urls |-> acc.assigned_urls \cup {story.url}]

\* The loop over edmonton_events: every event is placed.
RECURSIVE PlaceEvents(_, _, _)
PlaceEvents(acc, events, i) ==
    IF i > Len(events) THEN acc
    ELSE PlaceEvents(Place(acc, events[i], "Edmonton Events"), events, i + 1)

\* A direct loop without the assigned_urls test: stories are copied.
RECURSIVE PlaceDirectCopy(_, _, _, _)
PlaceDirectCopy(acc, stories, i, cat) ==
    IF i > Len(stories) THEN acc
    ELSE PlaceDirectCopy(Place(acc, stories[i], cat), stories, i + 1, cat)

\* A direct loop: a story is placed unless its URL is assigned already.
RECURSIVE PlaceDirect(_, _, _, _)
PlaceDirect(acc, stories, i, cat) ==
    IF i > Len(stories) THEN acc
    ELSE PlaceDirect(
            IF stories[i].url \notin acc.assigned_urls
            THEN Place(acc, stories[i], cat) ELSE acc,
            stories, i + 1, cat)

\* A cross-filter loop that copies: the promoted story's URL is not recorded
\* as assigned, so the broad category takes it as well.
RECURSIVE PlaceMatchingCopy(_, _, _, _, _)
PlaceMatchingCopy(acc, stories, i, cat, keywords) ==
    IF i > Len(stories) THEN acc
    ELSE PlaceMatchingCopy(
            IF /\ stories[i].url \notin acc.assigned_urls
               /\ _matches_keywords(stories[i], keywords)
            THEN [Place(acc, stories[i], cat) EXCEPT
                     !.assigned_urls = acc.assigned_urls]
            ELSE acc,
            stories, i + 1, cat, keywords)

\* A cross-filter loop: a story is placed when its URL is not assigned yet
\* and it matches a keyword.
RECURSIVE PlaceMatching(_, _, _, _, _)
PlaceMatching(acc, stories, i, cat, keywords) ==
    IF i > Len(stories) THEN acc
    ELSE PlaceMatching(
            IF /\ stories[i].url \notin acc.assigned_urls
               /\ _matches_keywords(stories[i], keywords)
            THEN Place(acc, stories[i], cat) ELSE acc,
            stories, i + 1, cat, keywords)

\* categorize_stories without its last loop: what is left of general is lost.
categorize_stories_no_general(general, actors, music, classic_rock, events) ==
    LET s0 == [categorized |-> Empty, assigned_urls |-> {}]
        s1 == PlaceEvents(s0, events, 1)
        s2 == PlaceDirect(s1, actors, 1, "Actors & Celebrity")
        s3 == PlaceMatching(s2, general, 1, "Actors & Celebrity", ACTOR_KEYWORDS)
        s4 == PlaceDirect(s3, classic_rock, 1, "Classic Rock")
        s5 == PlaceMatching(s4, music, 1, "Classic Rock", CLASSIC_ROCK_KEYWORDS)
        s6 == PlaceDirect(s5, music, 1, "Musicians & Music")
    IN  s6.categorized

\* categorize_stories with the Classic Rock loops ahead of the Actors ones.
categorize_stories_rock_first(general, actors, music, classic_rock, events) ==
    LET s0 == [categorized |-> Empty, assigned_urls |-> {}]
        s1 == PlaceEvents(s0, events, 1)
        s2 == PlaceDirect(s1, classic_rock, 1, "Classic Rock")
        s3 == PlaceMatching(s2, music, 1, "Classic Rock", CLASSIC_ROCK_KEYWORDS)
        s4 == PlaceDirect(s3, actors, 1, "Actors & Celebrity")
        s5 == PlaceMatching(s4, general, 1, "Actors & Celebrity", ACTOR_KEYWORDS)
        s6 == PlaceDirect(s5, music, 1, "Musicians & Music")
        s7 == PlaceDirect(s6, general, 1, "General Entertainment")
    IN  s7.categorized

categorize_stories(general, actors, music, classic_rock, events) ==
    LET s0 == [categorized |-> Empty, assigned_urls |-> {}]
        s1 == PlaceEvents(s0, events, 1)
        s2 == PlaceDirect(s1, actors, 1, "Actors & Celebrity")
        s3 == PlaceMatching(s2, general, 1, "Actors & Celebrity", ACTOR_KEYWORDS)
        s4 == PlaceDirect(s3, classic_rock, 1, "Classic Rock")
        s5 == PlaceMatching(s4, music, 1, "Classic Rock", CLASSIC_ROCK_KEYWORDS)
        s6 == PlaceDirect(s5, music, 1, "Musicians & Music")
        s7 == PlaceDirect(s6, general, 1, "General Entertainment")
    IN  s7.categorized

\* The inner loop keeping the last story of a URL instead of the first.
RECURSIVE DedupCategoryKeepLast(_, _, _, _, _)
DedupCategoryKeepLast(stories, i, seen_urls, unique, sent_hashes) ==
    IF i > Len(stories) THEN unique
    ELSE IF url_hash(stories[i].url) \in sent_hashes
         THEN DedupCategoryKeepLast(stories, i + 1, seen_urls, unique, sent_hashes)
    ELSE DedupCategoryKeepLast(
            stories, i + 1, seen_urls \cup {stories[i].url},
            Append(SelectSeq(unique, LAMBDA s : s.url # stories[i].url),
                   stories[i]),
            sent_hashes)

\* The inner loop of dedup_stories over one category's stories.
RECURSIVE DedupCategory(_, _, _, _, _)
DedupCategory(stories, i, seen_urls, unique, sent_hashes) ==
    IF i > Len(stories) THEN unique
    ELSE IF url_hash(stories[i].url) \in sent_hashes
         THEN DedupCategory(stories, i + 1, seen_urls, unique, sent_hashes)
    ELSE IF stories[i].url \in seen_urls
         THEN DedupCategory(stories, i + 1, seen_urls, unique, sent_hashes)
    ELSE DedupCategory(stories, i + 1, seen_urls \cup {stories[i].url},
                       Append(unique, stories[i]), sent_hashes)

dedup_stories(cats, rows) ==
    LET sent_hashes == get_sent_hashes(rows) IN
    [c \in DOMAIN cats |-> DedupCategory(cats[c], 1, {}, <<>>, sent_hashes)]

\* A descending sort that is not stable: each story goes before the stories
\* already placed with an equal key.
RECURSIVE InsertDescendingUnstable(_, _, _)
InsertDescendingUnstable(sorted, story, i) ==
    IF i > Len(sorted) THEN Append(sorted, story)
    ELSE IF ~StrLess(story.published, sorted[i].published)
         THEN SubSeq(sorted, 1, i - 1) \o <<story>> \o SubSeq(sorted, i, Len(sorted))
         ELSE InsertDescendingUnstable(sorted, story, i + 1)

\* sorted(..., reverse=True) keeps the input order of equal keys: each story
\* goes behind every story already placed whose key is not smaller.
RECURSIVE InsertDescending(_, _, _)
InsertDescending(sorted, story, i) ==
    IF i > Len(sorted) THEN Append(sorted, story)
    ELSE IF StrLess(sorted[i].published, story.published)
         THEN SubSeq(sorted, 1, i - 1) \o <<story>> \o SubSeq(sorted, i, Len(sorted))
         ELSE InsertDescending(sorted, story, i + 1)

RECURSIVE SortDescending(_, _, _)
SortDescending(stories, i, sorted) ==
    IF i > Len(stories) THEN sorted
    ELSE SortDescending(stories, i + 1, InsertDescending(sorted, stories[i], 1))

\* A slice that is one story too long: s[:n + 1]
TakeOneMore(s, n) == SubSeq(s, 1, IF Len(s) < n + 1 THEN Len(s) ELSE n + 1)

\* s[:n]
Take(s, n) == SubSeq(s, 1, IF Len(s) < n THEN Len(s) ELSE n)

sort_and_limit(cats) ==
    [c \in DOMAIN cats |->
        Take(SortDescending(cats[c], 1, <<>>), STORIES_PER_CATEGORY)]

(***************************************************************************)
(* The pipeline as a state machine: the inputs are drawn by Init, then     *)
(* process_all_stories runs its three stages; dedup_stories can also be    *)
(* called on a mapping of the caller's own.                                *)
(***************************************************************************)
\* Ledgers the pipeline can find: empty, or https://a.com/x sent before.
SentChoices ==
    { {}, mark_stories_sent({}, <<StoryX>>,
                            [day |-> DEDUP_RETENTION_DAYS, hour |-> 0]).rows }

InitPipeline ==
    /\ clock = [day |-> DEDUP_RETENTION_DAYS, hour |-> 12]
    /\ advances = 0
    /\ sent_stories \in SentChoices
    /\ ret = [op |-> "init_db", arg |-> <<>>, value |-> 0, again |-> FALSE]
    /\ deduped = Empty /\ limited = Empty
    /\ NoCommand
    /\ \E v \in SeqsUpTo(Stories, MaxStories) :
       \E w \in SeqsUpTo(Stories, MaxStories - Len(v)) :
       \E x \in SeqsUpTo(Stories, MaxStories - Len(v) - Len(w)) :
       \E y \in SeqsUpTo(Stories, MaxStories - Len(v) - Len(w) - Len(x)) :
       \E z \in SeqsUpTo(Stories,
                         MaxStories - Len(v) - Len(w) - Len(x) - Len(y)) :
          \/ /\ pc = "start"
             /\ general_stories = v /\ actor_stories = w /\ music_stories = x
             /\ classic_rock_stories = y /\ edmonton_events = z
             /\ categorized = Empty
          \/ /\ pc = "given"
             /\ general_stories = <<>> /\ actor_stories = <<>>
             /\ music_stories = <<>> /\ classic_rock_stories = <<>>
             /\ edmonton_events = <<>>
             /\ categorized =
                  [c \in Range(CATEGORIES) |->
                      CASE c = "General Entertainment" -> v
                        [] c = "Actors & Celebrity"    -> w
                        [] c = "Musicians & Music"     -> x
                        [] c = "Classic Rock"          -> y
                        [] c = "Edmonton Events"       -> z]

CategorizeStories ==
    /\ pc = "start"
    /\ categorized' = categorize_stories(general_stories, actor_stories,
                          music_stories, classic_rock_stories, edmonton_events)
    /\ pc' = "categorized"
    /\ UNCHANGED <<ledger_vars, input_vars, send_vars, deduped, limited>>

\* The stories of every category, category after category.
RECURSIVE AllStories(_, _)
AllStories(d, k) ==
    IF k > Len(CATEGORIES) THEN <<>>
    ELSE d[CATEGORIES[k]] \o AllStories(d, k + 1)

\* A dedup_stories that records the stories it lets through as sent.
DedupStoriesMarking ==
    /\ pc \in {"categorized", "given"}
    /\ deduped' = dedup_stories(categorized, sent_stories)
    /\ sent_stories' =
          mark_stories_sent(sent_stories, AllStories(deduped', 1), clock).rows
    /\ pc' = "deduped"
    /\ UNCHANGED <<clock, advances, ret, input_vars, send_vars, categorized,
                   limited>>

DedupStories ==
    /\ pc \in {"categorized", "given"}
    /\ deduped' = dedup_stories(categorized, sent_stories)
    /\ pc' = "deduped"
    /\ UNCHANGED <<ledger_vars, input_vars, send_vars, categorized, limited>>

SortAndLimit ==
    /\ pc = "deduped"
    /\ limited' = sort_and_limit(deduped)
    /\ pc' = "limited"
    /\ UNCHANGED <<ledger_vars, input_vars, send_vars, categorized, deduped>>

NextPipeline ==
    \/ CategorizeStories
    \/ DedupStories
    \/ SortAndLimit

SpecPipeline == InitPipeline /\ [][NextPipeline]_vars

(***************************************************************************)
(* Claims about categorize_stories, checked under SpecPipeline in the      *)
(* states where categorized is its result for the five drawn groups.       *)
(***************************************************************************)
UrlsOf(stories) == {stories[i].url : i \in DOMAIN stories}

InputUrls ==
    UrlsOf(general_stories) \cup UrlsOf(actor_stories) \cup UrlsOf(music_stories)
        \cup UrlsOf(classic_rock_stories) \cup UrlsOf(edmonton_events)

CategoriesOf(u) == {c \in Range(CATEGORIES) : u \in UrlsOf(categorized[c])}

Categorized == pc = "categorized"

\* The number of places, over the whole mapping, that hold URL u.
Occurrences(cats, u) ==
    Cardinality({<<c, i>> \in Range(CATEGORIES) \X (1..MaxStories + 1) :
                    i \in DOMAIN cats[c] /\ cats[c][i].url = u})

\* C1: no URL appears under two different categories of the result.
C1_NoUrlInTwoCategories ==
    Categorized =>
        \A c1, c2 \in Range(CATEGORIES) :
            c1 # c2 => UrlsOf(categorized[c1]) \cap UrlsOf(categorized[c2]) = {}

\* A URL came in through general (no keyword) and through classicRock too.
C1_Witness ==
    /\ Categorized
    /\ \E i \in DOMAIN general_stories :
        /\ ~_matches_keywords(general_stories[i], ACTOR_KEYWORDS)
        /\ general_stories[i].url \in UrlsOf(classic_rock_stories)
        /\ general_stories[i].url \in UrlsOf(categorized["Classic Rock"])

\* C2: the URL of every input story is under exactly one category, and the
\* events are all in Edmonton Events, in their order.
C2_EveryUrlInExactlyOneCategory ==
    Categorized =>
        /\ \A u \in InputUrls : Cardinality(CategoriesOf(u)) = 1
        /\ categorized["Edmonton Events"] =
              [i \in DOMAIN edmonton_events |->
                  WithCategory(edmonton_events[i], "Edmonton Events")]

\* Three groups had stories, an event among them, two of them sharing a URL.
C2_Witness ==
    /\ Categorized
    /\ Len(edmonton_events) = 1 /\ Len(general_stories) = 1
    /\ Len(music_stories) = 1
    /\ general_stories[1].url = music_stories[1].url
    /\ general_stories[1].url # edmonton_events[1].url

\* C3: no URL occurs twice anywhere in the result, Edmonton Events included.
C3_NoUrlTwiceAnywhere ==
    Categorized => \A u \in InputUrls : Occurrences(categorized, u) = 1

\* The general / music stories (by index) that match the keywords of the
\* specific category.
PromotedGeneral ==
    {i \in DOMAIN general_stories :
        _matches_keywords(general_stories[i], ACTOR_KEYWORDS)}

PromotedMusic ==
    {i \in DOMAIN music_stories :
        _matches_keywords(music_stories[i], CLASSIC_ROCK_KEYWORDS)}

\* The category categorize_stories' rules give URL u, rule by rule.
RuleCategory(u) ==
    IF u \in UrlsOf(edmonton_events) THEN "Edmonton Events"
    ELSE IF u \in UrlsOf(actor_stories) THEN "Actors & Celebrity"
    ELSE IF \E i \in DOMAIN general_stories :
                /\ general_stories[i].url = u
                /\ _matches_keywords(general_stories[i], ACTOR_KEYWORDS)
         THEN "Actors & Celebrity"
    ELSE IF u \in UrlsOf(classic_rock_stories) THEN "Classic Rock"
    ELSE IF \E i \in DOMAIN music_stories :
                /\ music_stories[i].url = u
                /\ _matches_keywords(music_stories[i], CLASSIC_ROCK_KEYWORDS)
         THEN "Classic Rock"
    ELSE IF u \in UrlsOf(music_stories) THEN "Musicians & Music"
    ELSE "General Entertainment"

\* The category the rules give one story of a group, looked at on its own.
OwnCategory(group, story) ==
    CASE group = "events" -> "Edmonton Events"
      [] group = "actors" -> "Actors & Celebrity"
      [] group = "classicRock" -> "Classic Rock"
      [] group = "general" ->
            IF _matches_keywords(story, ACTOR_KEYWORDS)
            THEN "Actors & Celebrity" ELSE "General Entertainment"
      [] group = "music" ->
            IF _matches_keywords(story, CLASSIC_ROCK_KEYWORDS)
            THEN "Classic Rock" ELSE "Musicians & Music"

GroupStories(group) ==
    CASE group = "events" -> edmonton_events
      [] group = "actors" -> actor_stories
      [] group = "classicRock" -> classic_rock_stories
      [] group = "general" -> general_stories
      [] group = "music" -> music_stories

GroupNames == {"events", "actors", "classicRock", "general", "music"}

\* C4 as stated: every story is found (by its URL) in the category of the
\* first rule that applies to it; so every actors story is in Actors &
\* Celebrity and every classicRock story in Classic Rock.
C4_EachItemByItsOwnRule ==
    Categorized =>
        \A g \in GroupNames : \A i \in DOMAIN GroupStories(g) :
            GroupStories(g)[i].url
                \in UrlsOf(categorized[OwnCategory(g, GroupStories(g)[i])])

\* C4 amended: the rules are applied to URLs.  A URL is placed by the first
\* rule, in priority order, that applies to any story carrying it; a story
\* whose URL is placed already is skipped (events excepted).  An actors
\* story is in Actors & Celebrity unless an event has its URL, a classicRock
\* story is in Classic Rock unless rules 1-3 placed its URL.
C4_EachUrlByFirstRule ==
    Categorized =>
        /\ \A u \in InputUrls : CategoriesOf(u) = {RuleCategory(u)}
        /\ \A i \in DOMAIN actor_stories :
              actor_stories[i].url \notin UrlsOf(edmonton_events)
                => actor_stories[i].url \in UrlsOf(categorized["Actors & Celebrity"])
        /\ \A i \in DOMAIN classic_rock_stories :
              LET u == classic_rock_stories[i].url IN
              (u \in UrlsOf(categorized["Classic Rock"]))
                 = /\ u \notin UrlsOf(edmonton_events) \cup UrlsOf(actor_stories)
                   /\ \A j \in PromotedGeneral : general_stories[j].url # u
        /\ \A c \in Range(CATEGORIES) : \A k \in DOMAIN categorized[c] :
              categorized[c][k].category = c

\* A general story matching an actor keyword shares its URL with a
\* classicRock story: rule 3 wins over rule 4.
C4_Witness ==
    /\ Categorized
    /\ \E i \in DOMAIN general_stories :
        /\ _matches_keywords(general_stories[i], ACTOR_KEYWORDS)
        /\ general_stories[i].url \in UrlsOf(classic_rock_stories)
        /\ general_stories[i].url \in UrlsOf(categorized["Actors & Celebrity"])
        /\ categorized["Classic Rock"] = <<>>

OnlyGroup(stories) ==
    Len(stories) = 1 /\ Len(general_stories) + Len(actor_stories)
        + Len(music_stories) + Len(classic_rock_stories)
        + Len(edmonton_events) = 1

\* C5 as stated: a keyword-matching general story is in Actors & Celebrity
\* and not in General Entertainment; a keyword-matching music story is in
\* Classic Rock and not in Musicians & Music.
C5_PromotedIsInSpecificCategory ==
    Categorized =>
        /\ \A i \in PromotedGeneral :
            /\ general_stories[i].url \in UrlsOf(categorized["Actors & Celebrity"])
            /\ general_stories[i].url \notin UrlsOf(categorized["General Entertainment"])
        /\ \A i \in PromotedMusic :
            /\ music_stories[i].url \in UrlsOf(categorized["Classic Rock"])
            /\ music_stories[i].url \notin UrlsOf(categorized["Musicians & Music"])

\* C5 amended: a keyword-matching general story is never in General
\* Entertainment, and is in Actors & Celebrity unless an event has its URL;
\* a keyword-matching music story is never in Musicians & Music, and is in
\* Classic Rock unless an earlier rule (events, actors, promoted general)
\* placed its URL.  With the other groups empty the specific category holds
\* exactly that story and the broad one is empty.
C5_PromotionMovesNeverCopies ==
    Categorized =>
        /\ \A i \in PromotedGeneral :
            LET u == general_stories[i].url IN
            /\ u \notin UrlsOf(categorized["General Entertainment"])
            /\ (u \in UrlsOf(categorized["Actors & Celebrity"]))
                  = (u \notin UrlsOf(edmonton_events))
        /\ \A i \in PromotedMusic :
            LET u == music_stories[i].url IN
            /\ u \notin UrlsOf(categorized["Musicians & Music"])
            /\ (u \in UrlsOf(categorized["Classic Rock"]))
                  = (u \notin UrlsOf(categorized["Edmonton Events"])
                               \cup UrlsOf(categorized["Actors & Celebrity"]))
        /\ (OnlyGroup(general_stories) /\ PromotedGeneral # {}) =>
              /\ categorized["General Entertainment"] = <<>>
              /\ categorized["Actors & Celebrity"] =
                    <<WithCategory(general_stories[1], "Actors & Celebrity")>>
        /\ (OnlyGroup(music_stories) /\ PromotedMusic # {}) =>
              /\ categorized["Musicians & Music"] = <<>>
              /\ categorized["Classic Rock"] =
                    <<WithCategory(music_stories[1], "Classic Rock")>>

\* The scenario of the specification: general holds the one story
\* "Star lands casting role" under https://variety.com/1, nothing else.
C5_Witness ==
    /\ Categorized
    /\ general_stories = <<StoryOf(UrlB, CastingNews)>>
    /\ OnlyGroup(general_stories)
    /\ Len(categorized["Actors & Celebrity"]) = 1
    /\ categorized["Actors & Celebrity"][1].url = UrlB

(***************************************************************************)
(* Claims about dedup_stories, checked under SpecPipeline in the states    *)
(* where deduped is its result for categorized and the ledger.             *)
(***************************************************************************)
Deduped == pc = "deduped"

\* Identity hashes in the ledger, as stored.
LedgerHashes == {r.url_hash : r \in sent_stories}

\* The positions of a category's stories that dedup has to keep: the hash
\* of the trimmed URL is not in the ledger and no earlier story of the
\* category has the URL.
Kept(stories) ==
    {i \in DOMAIN stories :
        /\ sha256(strip(stories[i].url)) \notin LedgerHashes
        /\ \A j \in 1..(i - 1) : stories[j].url # stories[i].url}

\* The k-th smallest member of a set of positions.
Nth(S, k) == CHOOSE i \in S : Cardinality({j \in S : j < i}) = k - 1

\* C6: dedup_stories removes, in every category, every story whose
\* sha256(trim(url)) is in the ledger, removes nothing else but repeats of
\* a URL inside the category, and keeps the survivors in input order.
C6_DedupRemovesExactlySentAndRepeats ==
    Deduped =>
        /\ DOMAIN deduped = DOMAIN categorized
        /\ \A c \in DOMAIN categorized :
            /\ Len(deduped[c]) = Cardinality(Kept(categorized[c]))
            /\ \A k \in DOMAIN deduped[c] :
                  deduped[c][k] = categorized[c][Nth(Kept(categorized[c]), k)]
            /\ \A k \in DOMAIN deduped[c] :
                  sha256(strip(deduped[c][k].url)) \notin LedgerHashes

\* A category of three stories: the blank-padded URL whose trimmed hash is
\* in the ledger went, and so did the repeat of the other URL.
C6_Witness ==
    /\ Deduped
    /\ sent_stories # {}
    /\ \E c \in DOMAIN categorized :
        /\ Len(categorized[c]) = 3
        /\ categorized[c][2].url = UrlAw
        /\ categorized[c][3].url = categorized[c][1].url
        /\ deduped[c] = <<categorized[c][1]>>

FirstWithUrl(stories, u) ==
    CHOOSE i \in DOMAIN stories :
        stories[i].url = u /\ \A j \in 1..(i - 1) : stories[j].url # u

\* C7: inside a category no URL is left twice, and the story kept for a URL
\* (one that is not in the ledger) is the first with that URL in input order.
C7_FirstOccurrenceWins ==
    Deduped =>
        \A c \in DOMAIN categorized :
            /\ \A k1, k2 \in DOMAIN deduped[c] :
                  deduped[c][k1].url = deduped[c][k2].url => k1 = k2
            /\ \A u \in UrlsOf(categorized[c]) :
                  sha256(strip(u)) \notin LedgerHashes =>
                     \E k \in DOMAIN deduped[c] :
                        deduped[c][k] = categorized[c][FirstWithUrl(categorized[c], u)]

\* A category held two different stories under one URL, which is not in
\* the ledger; one of them is left.
C7_Witness ==
    /\ Deduped
    /\ \E c \in DOMAIN categorized :
        /\ Len(categorized[c]) = 2
        /\ categorized[c][1].url = categorized[c][2].url
        /\ categorized[c][1].title # categorized[c][2].title
        /\ deduped[c] = <<categorized[c][1]>>

(***************************************************************************)
(* Retention: cleanup_old_stories against the age of each ledger row,      *)
(* checked under SpecRetention (the ledger calls from either time of day). *)
(***************************************************************************)
\* int() of a decimal field of a timestamp
RECURSIVE ParseNat(_, _)
ParseNat(s, acc) ==
    IF s = "" THEN acc
    ELSE ParseNat(SubSeq(s, 2, Len(s)),
                  10 * acc + (CHOOSE d \in 0..9 : Digit(d) = CharAt(s, 1)))

\* The instant a row was written, read back from its sent_at text.
SentTime(r) ==
    [day  |-> ParseNat(SubSeq(r.sent_at, 1, 3), 0),
     hour |-> ParseNat(SubSeq(r.sent_at, 5, 6), 0)]

\* Instants in hours since day 0.
HoursOf(t) == 24 * t.day + t.hour

\* The age of a row at the instant now, in hours.
AgeHours(r, now) == HoursOf(now) - HoursOf(SentTime(r))

RetentionHours == 24 * DEDUP_RETENTION_DAYS

\* init_db on a fresh file, at either time of day.
InitRetention ==
    /\ clock \in {[day |-> DEDUP_RETENTION_DAYS, hour |-> h] : h \in Hours}
    /\ advances = 0
    /\ sent_stories = {}
    /\ ret = [op |-> "init_db", arg |-> <<>>, value |-> 0, again |-> FALSE]
    /\ general_stories = <<>> /\ actor_stories = <<>> /\ music_stories = <<>>
    /\ classic_rock_stories = <<>> /\ edmonton_events = <<>>
    /\ categorized = Empty /\ deduped = Empty /\ limited = Empty
    /\ pc = "idle"
    /\ NoCommand

SpecRetention == InitRetention /\ [][NextLedger]_vars

IsCleanup(call) == call.op = "cleanup_old_stories"

\* C11: cleanup_old_stories deletes every row older than the retention
\* period (30 days), keeps every row sent less than 30 days ago, and returns
\* the number of rows it deleted.
C11_CleanupDeletesExactlyOlderRows ==
    [][ IsCleanup(ret') =>
          /\ \A r \in sent_stories :
                /\ AgeHours(r, clock) > RetentionHours => r \notin sent_stories'
                /\ AgeHours(r, clock) < RetentionHours => r \in sent_stories'
          /\ sent_stories' \subseteq sent_stories
          /\ ret'.value = Cardinality(sent_stories \ sent_stories') ]_vars

(***************************************************************************)
(* sort_and_limit on categories longer than STORIES_PER_CATEGORY, checked  *)
(* under SpecRank: Init draws a de-duplicated mapping, SortAndLimit runs.  *)
(***************************************************************************)
\* str(i) of f"Story {i}" and f"https://a.com/{i}"
Decimal(i) == IF i < 10 THEN Digit(i) ELSE Digit(i \div 10) \o Digit(i % 10)

\* _make_story(f"Story {i}", f"https://a.com/{i}", published=...)
RankStory(i, published, cat) ==
    WithCategory(Story("https://a.com/" \o Decimal(i), "Story " \o Decimal(i),
                       "", published), cat)

\* test_sort_and_limit: 15 stories, story i published on 2026-02-(18 - i).
SortTestStories ==
    [k \in 1..15 |->
        RankStory(k - 1, "2026-02-" \o Pad2(19 - k) \o "T10:00:00",
                  "Classic Rock")]

\* A later and an earlier instant than Published, and no published at all
\* (s.get("published", "") of a story without the key).
OtherPublished == {"2026-02-19T08:30:00", "2026-02-17T23:00:00", ""}

\* A list of n stories published at Published, but for the positions of
\* DOMAIN other, whose published is what other gives.
RankedList(n, other) ==
    [k \in 1..n |->
        RankStory(k, IF k \in DOMAIN other THEN other[k] ELSE Published,
                  "General Entertainment")]

\* The positions that can carry another published: at most MaxOdd of them.
OddPositions(n) == {S \in SUBSET (1..n) : Cardinality(S) <= MaxOdd}

\* The mapping dedup_stories hands to sort_and_limit: URLs differ inside a
\* category.
InitRank ==
    /\ clock = [day |-> DEDUP_RETENTION_DAYS, hour |-> 12]
    /\ advances = 0
    /\ sent_stories = {}
    /\ ret = [op |-> "init_db", arg |-> <<>>, value |-> 0, again |-> FALSE]
    /\ general_stories = <<>> /\ actor_stories = <<>> /\ music_stories = <<>>
    /\ classic_rock_stories = <<>> /\ edmonton_events = <<>>
    /\ categorized = Empty
    /\ \/ \E n \in 0..MaxRanked :
             \E odd \in OddPositions(n) :
                \E other \in [odd -> OtherPublished] :
                   deduped = [Empty EXCEPT
                                 !["General Entertainment"] = RankedList(n, other)]
       \/ deduped = [Empty EXCEPT !["Classic Rock"] = SortTestStories]
    /\ limited = Empty
    /\ pc = "deduped"
    /\ NoCommand

NextRank == SortAndLimit

SpecRank == InitRank /\ [][NextRank]_vars

Limited == pc = "limited"

Min(a, b) == IF a < b THEN a ELSE b

\* C12: sort_and_limit returns, for every category of n stories, exactly
\* min(n, 10) stories, never more than 10, each of them a story of that
\* category's input, and none of them twice.
C12_AtMostTenPerCategory ==
    Limited =>
        \A c \in DOMAIN deduped :
            /\ c \in DOMAIN limited
            /\ Len(limited[c]) = Min(Len(deduped[c]), 10)
            /\ Len(limited[c]) <= STORIES_PER_CATEGORY
            /\ \A k \in DOMAIN limited[c] :
                  /\ \E i \in DOMAIN deduped[c] : limited[c][k] = deduped[c][i]
                  /\ \A j \in DOMAIN limited[c] :
                        j # k => limited[c][j] # limited[c][k]

\* A category of more than 10 stories was cut to 10 and the empty ones
\* stayed empty.
C12_Witness ==
    /\ Limited
    /\ Len(deduped["General Entertainment"]) > STORIES_PER_CATEGORY
    /\ Len(limited["General Entertainment"]) = 10
    /\ limited["Musicians & Music"] = <<>>

\* The position of a story in a list where it occurs once.
IndexIn(stories, s) == CHOOSE i \in DOMAIN stories : stories[i] = s

\* The stories sort_and_limit cut off a category.
CutOff(c) ==
    {i \in DOMAIN deduped[c] :
        \A k \in DOMAIN limited[c] : limited[c][k] # deduped[c][i]}

\* a goes before b in a stable descending sort by published: its published
\* is larger, or equal while a stood before b in the input.
GoesBefore(c, a, b) ==
    \/ StrLess(b.published, a.published)
    \/ /\ a.published = b.published
       /\ IndexIn(deduped[c], a) < IndexIn(deduped[c], b)

\* C13: the output of sort_and_limit is the head of the stable descending
\* sort by the published string: every output story goes before every story
\* behind it and before every story cut off (larger published first, equal
\* published in input order), and a story without published comes behind
\* every story that has one.
C13_HeadOfStableDescendingSort ==
    Limited =>
        \A c \in DOMAIN deduped :
            \A k \in DOMAIN limited[c] :
                /\ \A j \in DOMAIN limited[c] :
                      k < j =>
                        /\ GoesBefore(c, limited[c][k], limited[c][j])
                        /\ limited[c][k].published = ""
                              => limited[c][j].published = ""
                /\ \A i \in CutOff(c) :
                      /\ GoesBefore(c, limited[c][k], deduped[c][i])
                      /\ limited[c][k].published = ""
                            => deduped[c][i].published = ""

\* Eleven stories: the first has no published and is the one cut off, the
\* last is the newest and comes first, the ones between them share one
\* published and keep their order.
C13_Witness ==
    LET in  == deduped["General Entertainment"]
        out == limited["General Entertainment"] IN
    /\ Limited
    /\ Len(in) = 11
    /\ in[1].published = ""
    /\ StrLess(in[2].published, in[11].published)
    /\ out[1] = in[11]
    /\ \A k \in 2..10 : out[k] = in[k] /\ in[k].published = Published
    /\ CutOff("General Entertainment") = {1}

(***************************************************************************)
(* main.py send: cmd_send and _collect_stories, one action per step.       *)
(***************************************************************************)
\* The feed groups of _collect_stories, in the order it fetches them.
FeedGroups ==
    <<"General Entertainment feeds", "Actors & Celebrity feeds",
      "Musicians & Music feeds", "Classic Rock feeds">>

\* A site of each group (config.py feed lists).
FeedSite ==
    <<"https://variety.com/", "https://people.com/",
      "https://pitchfork.com/", "https://ultimateclassicrock.com/">>

\* What fetch_feeds returns for group g when its feeds carry n entries.
FeedStories(g, n) ==
    [i \in 1..n |->
        Story(FeedSite[g] \o Decimal(i), PopNews[1], PopNews[2], Published)]

\* fetch_feeds of a group: nothing (every feed failed or was empty), one
\* story, or MaxFetched stories.
FetchChoices(g) == {FeedStories(g, n) : n \in {0, 1, MaxFetched}}

\* os.environ and args of a send: the recipient, --dry-run, and what SMTP
\* would do with a message.
SendEnvironments ==
    [NOTIFICATION_EMAIL : {"", "me@example.com"},
     dry_run : BOOLEAN,
     smtp : {"no credentials", "refused", "accepted"}]

\* The ledger earlier runs left: the first General Entertainment story sent
\* yesterday, the first Classic Rock story sent more than 30 days ago.
SendNow == [day |-> 2 * DEDUP_RETENTION_DAYS, hour |-> 12]

PriorLedgers ==
    LET recent == mark_stories_sent({},
                      <<WithCategory(FeedStories(1, 1)[1],
                                     "General Entertainment")>>,
                      [day |-> SendNow.day - 1, hour |-> 12]).rows
        old    == mark_stories_sent({},
                      <<WithCategory(FeedStories(4, 1)[1], "Classic Rock")>>,
                      [day |-> 0, hour |-> 12]).rows
    IN  {{}, recent, old, recent \cup old}

InitSend ==
    /\ clock = SendNow
    /\ advances = 0
    /\ sent_stories \in PriorLedgers
    /\ ret = [op |-> "main", arg |-> "send", value |-> 0, again |-> FALSE]
    /\ general_stories = <<>> /\ actor_stories = <<>> /\ music_stories = <<>>
    /\ classic_rock_stories = <<>> /\ edmonton_events = <<>>
    /\ categorized = Empty /\ deduped = Empty /\ limited = Empty
    /\ pc = "cmd_send"
    /\ env \in SendEnvironments
    /\ runs = <<>>
    /\ fetched = <<>>
    /\ outbox = <<>>
    /\ errors = <<>>

\* The process ends: how (sys.exit, an uncaught exception, return) and with
\* which exit status.
Exit(how, status) ==
    /\ pc' = "exited"
    /\ ret' = Call("cmd_send", how, status)

\* A cmd_send that reads the recipient but goes on without one.
SendWithoutCheck ==
    /\ pc = "cmd_send"
    /\ pc' = "init_db"
    /\ UNCHANGED <<ledger_vars, input_vars, categorized, deduped, limited,
                   send_vars>>

\* to_email = os.environ.get("NOTIFICATION_EMAIL"); without it sys.exit(1)
SendCheckRecipient ==
    /\ pc = "cmd_send"
    /\ IF env.NOTIFICATION_EMAIL = ""
       THEN Exit("sys.exit", 1)
       ELSE pc' = "init_db" /\ UNCHANGED ret
    /\ UNCHANGED <<clock, advances, sent_stories, input_vars, categorized,
                   deduped, limited, send_vars>>

\* init_db(): CREATE TABLE IF NOT EXISTS leaves existing tables as they are.
SendInitDb ==
    /\ pc = "init_db"
    /\ pc' = "cleanup"
    /\ UNCHANGED <<ledger_vars, input_vars, categorized, deduped, limited,
                   send_vars>>

\* cleanup_old_stories()
SendCleanup ==
    /\ pc = "cleanup"
    /\ LET gone == Expired(sent_stories, clock) IN
          /\ sent_stories' = sent_stories \ gone
          /\ ret' = Call("cleanup_old_stories", <<>>, Cardinality(gone))
    /\ pc' = "collect"
    /\ UNCHANGED <<clock, advances, input_vars, categorized, deduped, limited,
                   send_vars>>

\* _collect_stories: the next fetch_feeds call.
CollectFetch ==
    /\ pc = "collect"
    /\ Len(fetched) < Len(FeedGroups)
    /\ LET g == Len(fetched) + 1 IN
       \E stories \in FetchChoices(g) :
          /\ general_stories' = IF g = 1 THEN stories ELSE general_stories
          /\ actor_stories' = IF g = 2 THEN stories ELSE actor_stories
          /\ music_stories' = IF g = 3 THEN stories ELSE music_stories
          /\ classic_rock_stories' =
                IF g = 4 THEN stories ELSE classic_rock_stories
          /\ fetched' = Append(fetched, FeedGroups[g])
          /\ errors' = IF stories = <<>> THEN Append(errors, FeedGroups[g])
                                         ELSE errors
    /\ UNCHANGED <<ledger_vars, edmonton_events, pipe_vars, env, runs, outbox>>

\* _collect_stories: process_all_stories(general_stories, actor_stories,
\* music_stories, classic_rock_stories) gives four arguments to a function
\* of five parameters without defaults: Python raises TypeError at the call,
\* nothing catches it, and the interpreter ends with status 1.
CollectProcess ==
    /\ pc = "collect"
    /\ Len(fetched) = Len(FeedGroups)
    /\ Exit("TypeError", 1)
    /\ UNCHANGED <<clock, advances, sent_stories, input_vars, categorized,
                   deduped, limited, send_vars>>

NextSend ==
    \/ SendCheckRecipient
    \/ SendInitDb
    \/ SendCleanup
    \/ CollectFetch
    \/ CollectProcess

SpecSend == InitSend /\ [][NextSend]_vars

(***************************************************************************)
(* Claims about send, checked under SpecSend.                              *)
(***************************************************************************)
Exited == pc = "exited"

\* The send got to its decision: a recipient is configured and all four
\* feed groups were fetched.
Collected ==
    /\ env.NOTIFICATION_EMAIL # ""
    /\ Len(fetched) = Len(FeedGroups)

\* The digest the collected stories make against the ledger rows: main.py
\* fetches no events.
Digest(rows) ==
    sort_and_limit(dedup_stories(
        categorize_stories(general_stories, actor_stories, music_stories,
                           classic_rock_stories, <<>>), rows))

RECURSIVE SumLen(_, _)
SumLen(d, cats) ==
    IF cats = {} THEN 0
    ELSE LET c == CHOOSE x \in cats : TRUE IN
         Len(d[c]) + SumLen(d, cats \ {c})

\* total = sum(len(s) for s in categorized.values())
Total(d) == SumLen(d, DOMAIN d)

DigestItems(d) == UNION {Range(d[c]) : c \in DOMAIN d}

\* C14: a send that reached its decision (recipient configured, stories
\* collected) has, when it ends, appended exactly one run record, whose
\* status is success, skipped or failed and which carries the count of
\* every category; with --dry-run as well.
C14_OneRunRecordPerSend ==
    (Exited /\ Collected) =>
        /\ Len(runs) = 1
        /\ runs[1].status \in {"success", "skipped", "failed"}
        /\ DOMAIN runs[1].categories = Range(CATEGORIES)

\* C15: a send whose digest holds fewer than 10 stories attempts no
\* delivery, records the run as skipped and ends normally (status 0); a
\* send whose digest holds 10 or more never records skipped.
C15_SkippedBelowMinimum ==
    (Exited /\ Collected) =>
        IF Total(Digest(sent_stories)) < 10
        THEN /\ outbox = <<>>
             /\ Len(runs) = 1 /\ runs[1].status = "skipped"
             /\ ret.value = 0
        ELSE \A k \in DOMAIN runs : runs[k].status # "skipped"

\* C16: a send that is no dry run, has 10 or more stories and whose
\* delivery fails (no SMTP credentials, or SMTP refuses) makes exactly one
\* delivery attempt, records the run as failed with an error detail, exits
\* non-zero and leaves the ledger without any story of the digest.
C16_FailedDeliveryIsRecorded ==
    (/\ Exited /\ Collected /\ ~env.dry_run
     /\ env.smtp # "accepted"
     /\ Total(Digest(sent_stories)) >= MIN_TOTAL_STORIES) =>
        /\ Len(outbox) = 1
        /\ Len(runs) = 1 /\ runs[1].status = "failed"
        /\ runs[1].error_message # ""
        /\ ret.value # 0
        /\ \A s \in DigestItems(Digest(sent_stories)) :
              ~is_story_sent(sent_stories, s.url)

\* C17: when a send that is no dry run ends after SMTP accepted its digest
\* of 10 or more stories, every story of that digest is in the ledger; and
\* a digest never holds a story whose trimmed URL hashes to a ledger row.
C17_DeliveredStoriesAreSuppressed ==
    [][ (/\ pc = "collect" /\ pc' = "exited" /\ Collected /\ ~env.dry_run
         /\ env.smtp = "accepted"
         /\ Total(Digest(sent_stories)) >= MIN_TOTAL_STORIES) =>
            \A s \in DigestItems(Digest(sent_stories)) :
                /\ ~is_story_sent(sent_stories, s.url)
                /\ is_story_sent(sent_stories', s.url) ]_vars

\* C19: a send without NOTIFICATION_EMAIL takes one step only, the exit
\* with a non-zero status: it fetches no feed, and neither cleans the
\* ledger, inserts into it, nor writes a run record.
C19_NoRecipientFailsBeforeAnyWork ==
    [][ env.NOTIFICATION_EMAIL = "" =>
          /\ pc = "cmd_send" /\ pc' = "exited"
          /\ ret'.op = "cmd_send" /\ ret'.value # 0
          /\ UNCHANGED <<sent_stories, runs, fetched, input_vars, outbox>> ]_vars

\* A send without recipient has exited with status 1 although the ledger
\* holds a row that cleanup_old_stories would delete.
C19_Witness ==
    /\ Exited
    /\ env.NOTIFICATION_EMAIL = ""
    /\ ret.op = "cmd_send" /\ ret.arg = "sys.exit" /\ ret.value = 1
    /\ Expired(sent_stories, clock) # {}
    /\ fetched = <<>> /\ runs = <<>>

RECURSIVE NormalizeEntries(_, _, _)
NormalizeEntries(entries, i, out) ==
    IF i > Len(entries) THEN out
    ELSE LET link  == entries[i].link
             title == strip(entries[i].title)
         IN  IF link = "" \/ title = ""
             THEN NormalizeEntries(entries, i + 1, out)
             ELSE NormalizeEntries(entries, i + 1,
                      Append(out, Story(link, title, "", Published)))

\* fetch_feed(url) on what feedparser.parse gave: [] when it raised, [] for
\* a malformed feed without entries.
fetch_feed(feed) ==
    IF feed.raised THEN <<>>
    ELSE IF feed.bozo /\ feed.entries = <<>> THEN <<>>
    ELSE NormalizeEntries(feed.entries, 1, <<>>)

\* _fetch_ticketmaster_events, the loop over raw_events: an event without
\* name, or with a name seen before in any letter case, is skipped; the url
\* is event.get("url", "").
RECURSIVE NormalizeEvents(_, _, _, _, _)
NormalizeEvents(raw_events, i, seen_names, events, now) ==
    IF i > Len(raw_events) THEN events
    ELSE LET name == strip(raw_events[i].name) IN
         IF name = "" \/ lower(name) \in seen_names
         THEN NormalizeEvents(raw_events, i + 1, seen_names, events, now)
         ELSE NormalizeEvents(raw_events, i + 1,
                  seen_names \cup {lower(name)},
                  Append(events, Story(raw_events[i].url, name, "",
                                       IsoFormat(now))),
                  now)

\* fetch_edmonton_events(): [] without TICKETMASTER_API_KEY, [] when the
\* request raised.
fetch_edmonton_events(api_key, response, now) ==
    IF api_key = "" THEN <<>>
    ELSE IF response.raised THEN <<>>
    ELSE NormalizeEvents(response.events, 1, {}, <<>>, now)

\* Entries feedparser can hand over: link and title present, blank or
\* missing (entry.get(..., "")).
RawEntries == [link : {"", " ", UrlA}, title : {"", "  ", " T ", "U"}]

\* Events of a Ticketmaster response: name and url present or missing.
RawEvents == [name : {"", " Show ", "show", "Gig"}, url : {"", UrlB}]

Feeds ==
    [raised : {FALSE}, bozo : BOOLEAN, entries : SeqsUpTo(RawEntries, MaxEntries)]
        \cup {[raised |-> TRUE, bozo |-> FALSE, entries |-> <<>>]}

Responses ==
    [raised : {FALSE}, events : SeqsUpTo(RawEvents, MaxEntries)]
        \cup {[raised |-> TRUE, events |-> <<>>]}

InitAdapters ==
    /\ clock = SendNow
    /\ advances = 0
    /\ sent_stories = {}
    /\ ret = [op |-> "init_db", arg |-> <<>>, value |-> 0, again |-> FALSE]
    /\ general_stories = <<>> /\ actor_stories = <<>> /\ music_stories = <<>>
    /\ classic_rock_stories = <<>> /\ edmonton_events = <<>>
    /\ categorized = Empty /\ deduped = Empty /\ limited = Empty
    /\ pc = "fetch_feed"
    /\ NoCommand

\* fetch_feed of one feed of the General Entertainment group.
FetchFeed ==
    /\ pc = "fetch_feed"
    /\ \E feed \in Feeds : general_stories' = fetch_feed(feed)
    /\ fetched' = Append(fetched, "fetch_feed")
    /\ pc' = "fetch_edmonton_events"
    /\ UNCHANGED <<ledger_vars, actor_stories, music_stories,
                   classic_rock_stories, edmonton_events, categorized,
                   deduped, limited, env, runs, outbox, errors>>

FetchEdmontonEvents ==
    /\ pc = "fetch_edmonton_events"
    /\ \E api_key \in {"", "key"}, response \in Responses :
          edmonton_events' = fetch_edmonton_events(api_key, response, clock)
    /\ fetched' = Append(fetched, "fetch_edmonton_events")
    /\ pc' = "start"
    /\ UNCHANGED <<ledger_vars, general_stories, actor_stories, music_stories,
                   classic_rock_stories, categorized, deduped, limited, env,
                   runs, outbox, errors>>

NextAdapters ==
    \/ FetchFeed
    \/ FetchEdmontonEvents
    \/ CategorizeStories

SpecAdapters == InitAdapters /\ [][NextAdapters]_vars

\* The feed adapter's stories have a url and a title.
FeedStoriesHaveUrlAndTitle ==
    \A i \in DOMAIN general_stories :
        general_stories[i].url # "" /\ general_stories[i].title # ""

\* The event adapter's stories have a url and a title.
EventsHaveUrlAndTitle ==
    \A i \in DOMAIN edmonton_events :
        edmonton_events[i].url # "" /\ edmonton_events[i].title # ""

\* C20: every story the categorizer is given, from the feed adapter or from
\* the event adapter, has a non-empty url and a non-empty title.
C20_AdaptedStoriesHaveUrlAndTitle ==
    (pc = "start") => (FeedStoriesHaveUrlAndTitle /\ EventsHaveUrlAndTitle)

(***************************************************************************)
(* The orchestrator _collect_stories, checked under SpecSend.              *)
(***************************************************************************)
\* The groups _collect_stories fetched and found empty, in fetch order.
EmptyGroups ==
    LET group == <<general_stories, actor_stories, music_stories,
                   classic_rock_stories>> IN
    SelectSeq(FeedGroups, LAMBDA name :
        \E g \in 1..Len(fetched) :
            FeedGroups[g] = name /\ group[g] = <<>>)

\* The failure list names exactly the groups that returned no story.
ErrorsNameTheEmptyGroups == errors = EmptyGroups

\* C21: whichever source groups come back empty, _collect_stories runs the
\* full pipeline on the stories it has and returns without failing the run,
\* and the failure list it reports holds exactly the names of the groups
\* that returned no story.
C21_CollectCompletesAndReportsEmptyGroups ==
    (Exited /\ Collected) =>
        /\ ret.arg # "TypeError"
        /\ limited = Digest(sent_stories)
        /\ ErrorsNameTheEmptyGroups

(***************************************************************************)
(* Identity hashes in the digest, checked under SpecPipeline.              *)
(***************************************************************************)
\* No two stories of the digest, in one category or in two, have the same
\* identity hash.
NoSharedHash(d) ==
    LET all == AllStories(d, 1) IN
    \A i, j \in DOMAIN all :
        i # j => url_hash(all[i].url) # url_hash(all[j].url)

\* mark_stories_sent on the digest inserts a row for each of its stories
\* and returns their number.
MarkCountsEveryStory(d, rows, now) ==
    LET all == AllStories(d, 1)
        r   == mark_stories_sent(rows, all, now)
    IN  /\ r.count = Len(all)
        /\ Cardinality(r.rows) = Cardinality(rows) + Len(all)

\* limited is what process_all_stories returns for the five groups.
IsDigest ==
    /\ Limited
    /\ categorized = categorize_stories(general_stories, actor_stories,
                                        music_stories, classic_rock_stories,
                                        edmonton_events)

\* C22: in the digest process_all_stories returns no two stories, of one
\* category or of two, have the same identity hash (sha256 of the trimmed
\* URL), so that mark_stories_sent on it inserts one ledger row per story
\* and returns the digest's total.
C22_DigestHashesAreDistinct ==
    IsDigest =>
        /\ NoSharedHash(limited)
        /\ MarkCountsEveryStory(limited, sent_stories, clock)

\* The same, for runs that were given no events.
DigestHashesAreDistinctWithoutEvents ==
    (IsDigest /\ edmonton_events = <<>>) => NoSharedHash(limited)

====
